---- MODULE Spec2Model ----
(***************************************************************************)
(* Ledger and balance engine of the family accounting app                  *)
(* (src/app_firestore.py): the records collection, the balance document,   *)
(* the transactional balance update, add_record / delete_record /          *)
(* update_record, the two cached readers (get_all_records and              *)
(* get_current_balance) and the date resolution of get_all_records.        *)
(*                                                                         *)
(* Amounts are integers (the forms produce whole NT$ amounts, stored as    *)
(* float).  An instant is a number of hours since 2024-02-01T00:00Z.       *)
(* A text is a tuple of one-character strings.                             *)
(***************************************************************************)
EXTENDS Integers, Sequences, FiniteSets, TLC

(* ------------------------------ bounds --------------------------------- *)

\* number of add_record calls in one behaviour (ids are never reused)
MaxRecords == 2
\* number of delete_record calls in one behaviour
MaxDeletes == 2
\* last instant the clock reaches, in hours since 2024-02-01T00:00Z
MaxNow == 27
\* number of add_record calls in a behaviour of SpecDates
MaxDateAdds == 1
\* number of update_record calls in one behaviour
MaxEdits == 2
\* number of add_record calls in a behaviour of SpecEdit
MaxEditAdds == 1

\* the browser sessions (script runs) that call the handlers: two, the fewest
\* that interleave two transactions and that list before another one deletes
Sessions == {1, 2}

(* ------------------------- program constants --------------------------- *)

\* db.transaction() is created with the client library's default number of
\* attempts of a read-write transaction
MAX_ATTEMPTS == 5

\* the two record types: the type strings of the forms (CATEGORIES keys),
\* INCOME the one add_record compares with, EXPENSE the other
INCOME == "income"
EXPENSE == "expense"

(* ------------------------------- dates --------------------------------- *)

\* a calendar date (datetime.date)
MkDate(y, m, d) == [y |-> y, m |-> m, d |-> d]

\* datetime.datetime: a calendar date, an hour of the day and a tzinfo tag
MkDateTime(date, hour, tz) == [date |-> date, hour |-> hour, tz |-> tz]

\* the instant h as an aware UTC datetime: datetime.datetime.now(datetime.timezone.utc)
NowUtc(h) == MkDateTime(MkDate(2024, 2, 1 + (h \div 24)), h % 24, "UTC")

\* datetime.datetime.combine(date, datetime.time.min, tzinfo=tz)
CombineMidnight(date, tz) == MkDateTime(date, 0, tz)

IsLeap(y) == (y % 4 = 0 /\ y % 100 # 0) \/ y % 400 = 0

DaysInMonth(y, m) ==
    IF m = 2 THEN (IF IsLeap(y) THEN 29 ELSE 28)
    ELSE IF m \in {4, 6, 9, 11} THEN 30 ELSE 31

Digits == {"0", "1", "2", "3", "4", "5", "6", "7", "8", "9"}

DigitVal(c) ==
    CASE c = "0" -> 0 [] c = "1" -> 1 [] c = "2" -> 2 [] c = "3" -> 3
      [] c = "4" -> 4 [] c = "5" -> 5 [] c = "6" -> 6 [] c = "7" -> 7
      [] c = "8" -> 8 [] c = "9" -> 9

RECURSIVE NumVal(_)
NumVal(s) == IF s = <<>> THEN 0
             ELSE 10 * NumVal(SubSeq(s, 1, Len(s) - 1)) + DigitVal(s[Len(s)])

AllDigits(s) == \A i \in 1..Len(s) : s[i] \in Digits

\* position of the first "-" of s at or after position i, 0 when there is none
RECURSIVE FindDash(_, _)
FindDash(s, i) == IF i > Len(s) THEN 0
                  ELSE IF s[i] = "-" THEN i ELSE FindDash(s, i + 1)

\* a %m or %d field: one or two digits, value at least 1
FieldOk(f, max) ==
    /\ Len(f) \in {1, 2}
    /\ AllDigits(f)
    /\ NumVal(f) >= 1
    /\ NumVal(f) <= max

NoDate == [y |-> 0, m |-> 0, d |-> 0]

\* datetime.datetime.strptime(s, '%Y-%m-%d').date(); NoDate stands for ValueError
StrpDate(s) ==
    LET p == FindDash(s, 6)
        ys == SubSeq(s, 1, 4)
        ms == SubSeq(s, 6, p - 1)
        ds == SubSeq(s, p + 1, Len(s))
    IN  IF /\ Len(s) >= 8
           /\ AllDigits(ys)
           /\ s[5] = "-"
           /\ p # 0
           /\ FieldOk(ms, 12)
           /\ FieldOk(ds, 31)
           /\ NumVal(ys) >= 1
           /\ NumVal(ds) <= DaysInMonth(NumVal(ys), NumVal(ms))
        THEN MkDate(NumVal(ys), NumVal(ms), NumVal(ds))
        ELSE NoDate

(* --------------------------- document fields -------------------------- *)

\* A value of a document's 'date' or 'timestamp' field as the client hands
\* it to get_all_records.  kind is what the type tests of the code see:
\*   "Timestamp"  an object with a to_pydatetime method
\*   "datetime"   a datetime.datetime instance without that method
\*   "str"        a string (the old format of 'date')
\*   "other"      any other value (null, a number)
\*   "missing"    the key is not in the document
FieldVal(kind, dt, s) == [kind |-> kind, dt |-> dt, s |-> s]

NaT == [date |-> NoDate, hour |-> 0, tz |-> "NaT"]

TimeField(kind, dt) == FieldVal(kind, dt, <<>>)
StrField(s) == FieldVal("str", NaT, s)
OtherField == FieldVal("other", NaT, <<>>)
MissingField == FieldVal("missing", NaT, <<>>)

\* the years pandas' datetime64[ns] can hold
PandasInRange(y) == y >= 1678 /\ y <= 2261

\* pd.to_datetime(x, errors='coerce', utc=True).dt.tz_convert(None) of one cell:
\* aware values are taken to UTC and the tzinfo dropped, naive ones are read
\* as UTC, None and values out of range become NaT
ToDatetimeNaive(x) ==
    IF x = NaT \/ ~PandasInRange(x.date.y) THEN NaT
    ELSE MkDateTime(x.date, x.hour, "naive")

\* step 1 without its isinstance(..., datetime.datetime) branch
ParsedTimestampNoDatetime(doc) ==
    IF doc.timestamp.kind = "Timestamp" THEN doc.timestamp.dt ELSE NaT

\* get_all_records step 1: the creation time of a document
ParsedTimestamp(doc) ==
    IF doc.timestamp.kind = "Timestamp" THEN doc.timestamp.dt
    ELSE IF doc.timestamp.kind = "datetime" THEN doc.timestamp.dt
    ELSE NaT

\* get_all_records step 2: the transaction date of a document, NoDate for None
ParsedDate(doc) ==
    IF doc.date.kind = "Timestamp" THEN doc.date.dt.date
    ELSE IF doc.date.kind = "str" THEN StrpDate(doc.date.s)
    ELSE NoDate

\* get_all_records step 3: the value put in doc_data['date']
FallbackDate(doc) ==
    IF ParsedDate(doc) # NoDate
    THEN CombineMidnight(ParsedDate(doc), "naive")
    ELSE IF ParsedTimestamp(doc) # NaT THEN ParsedTimestamp(doc)
    ELSE NaT

\* the DataFrame row of one document: the column conversions and the
\* back-fill of a NaT date from the timestamp column
RowOf(id, doc) ==
    LET d  == ToDatetimeNaive(FallbackDate(doc))
        ts == ToDatetimeNaive(ParsedTimestamp(doc))
    IN  [id        |-> id,
         date      |-> IF d = NaT /\ ts # NaT THEN ts ELSE d,
         type      |-> doc.type,
         category  |-> doc.category,
         amount    |-> doc.amount,
         timestamp |-> ts]

\* the documents the query order_by("timestamp") returns: Firestore leaves
\* out the documents that do not have the field
Listed(recs) == {i \in DOMAIN recs : recs[i].timestamp.kind # "missing"}

\* the DataFrame get_all_records builds from the collection, by record id
FrameOf(recs) == [i \in Listed(recs) |-> RowOf(i, recs[i])]

EmptyFrame == [i \in {} |-> 0]

(* ------------------------------ amounts -------------------------------- *)

\* signed(r): +amount for an income record, -amount for any other type
Signed(type, amount) == IF type = INCOME THEN amount ELSE 0 - amount

RECURSIVE SumOver(_, _)
SumOver(f, S) ==
    IF S = {} THEN 0
    ELSE LET i == CHOOSE x \in S : TRUE
         IN  f[i] + SumOver(f, S \ {i})

\* the signed sum of the live records
LiveSum(recs) == SumOver([i \in DOMAIN recs |-> Signed(recs[i].type, recs[i].amount)], DOMAIN recs)

\* update_balance_transactional line 276
AmountChange(amount, operation) == IF operation = "add" THEN amount ELSE 0 - amount

\* add_record line 419
AddOperation(type) == IF type = INCOME THEN "add" ELSE "subtract"

\* line 440 with the operation of add_record, not its reverse
DeleteOperationNotReversed(type) == AddOperation(type)

\* delete_record line 440: the reverse operation
DeleteOperation(type) == IF type = INCOME THEN "subtract" ELSE "add"

\* add_record lines 395-409: the value stored in the 'date' field
StoredDate(date, h) ==
    IF date # NoDate /\ date = NowUtc(h).date THEN NowUtc(h)
    ELSE IF date # NoDate THEN CombineMidnight(date, "UTC")
    ELSE NowUtc(h)

(* ------------------------------- state --------------------------------- *)

VARIABLES
    records,     \* the records collection: live record id -> document
    nextId,      \* the next id the store allocates on add
    balanceDoc,  \* the balance document: [exists, balance]
    recCache,    \* the st.cache_data entry of get_all_records: [valid, rows]
    balCache,    \* the st.cache_data entry of get_current_balance: [valid, value]
    now,         \* the clock, hours since 2024-02-01T00:00Z
    pc,          \* per session: "idle", "ubt_read" or "ubt_commit" (inside
                 \* update_balance_transactional), "gar" (inside get_all_records),
                 \* "gcb" (inside get_current_balance), "ba_load" or "ba_update"
                 \* (a save handler at its payment account)
    call,        \* per session: the add_record / delete_record call it is in
    snap,        \* per session: current_balance read by transaction_update, or
                 \* by a save handler from load_bank_accounts
    dirty,       \* per session: the balance document was written since that read
    attempts,    \* per session: commit attempts of the transaction that failed
    df,          \* per session: the DataFrame of its script run: [valid, rows]
    last,        \* the handler call that ended last, as its caller and user saw it
    added,       \* history: id -> the record_data add_record was called with
    committed,   \* history: the balance the committed writes add up to: each committed
                 \* transaction adds its amount_change, set_balance replaces it
    nDeletes,    \* history: the number of delete_record calls made
    nEdits,      \* history: the number of update_record calls made
    failures,    \* history: some call so far ran an except branch
    lost,        \* history: the sum of the amount_change of the balance updates
                 \* that ended without a commit
    overridden,  \* history: set_balance has written the balance document
    createdAt,   \* history: id -> the clock when add_record stored the record
    account,     \* the balance of the payment account in the accounts document
    accCache,    \* the st.cache_data entry of load_bank_accounts: [valid, value]
    accDeltas,   \* history: the sum of the deltas of the saves charged to the account
    ledger,      \* app.py: the rows of table ledger, in insertion order
    view         \* app.py: what the last script run of main showed

vars == <<records, nextId, balanceDoc, recCache, balCache, now, pc, call, snap, dirty,
          attempts, df, last, added, committed, nDeletes, nEdits, failures, lost,
          overridden, createdAt, account, accCache, accDeltas, ledger, view>>

\* a reader that takes an absent balance document for a balance of 1
BalanceAbsentIsOne == IF balanceDoc.exists THEN balanceDoc.balance ELSE 1

\* the balance a reader of the balance document sees (absent is 0.0)
Balance == IF balanceDoc.exists THEN balanceDoc.balance ELSE 0

\* a call: its arguments (for delete_record the row's type and amount),
\* amount_change, whether the target document existed when it was deleted,
\* what the call has shown (st.toast, st.error, st.warning); for
\* update_record the arguments are those of new_data and old is the type
\* and amount of old_data (for delete_record, as history, those of the
\* stored record when it was deleted); as history, the stored balance when the call
\* started and, for update_record, whether old_data was the stored record's
\* type and amount and the signed sum of the live records at that time;
\* account: the form that made the call has a payment account selected
NoCall == [op |-> "none", id |-> 0, type |-> "", category |-> "", amount |-> 0,
           change |-> 0, existed |-> FALSE, shown |-> {}, before |-> 0,
           old |-> [type |-> "", amount |-> 0], fresh |-> FALSE, liveBefore |-> 0,
           account |-> FALSE]

\* an ended call: the call, whether its record write was done, whether its
\* balance transaction committed, the commit attempts that failed, what
\* update_balance_transactional returned to the handler ("notcalled" when
\* it was not reached) and what the handler's caller got
NoLast == [call |-> NoCall, wrote |-> FALSE, applied |-> FALSE,
           attempts |-> 0, ubt |-> "notcalled", ret |-> "none"]

NoFrame == [valid |-> FALSE, rows |-> EmptyFrame]

\* no entry in the cache of get_current_balance
NoBalance == [valid |-> FALSE, value |-> 0]

NoRecords == [i \in {} |-> 0]

\* the state a session starts from: the collection holds recs and the
\* balance document, when there are records, agrees with them
InitWith(recs) ==
    /\ records = recs
    /\ nextId = 1
    /\ balanceDoc = [exists |-> recs # NoRecords, balance |-> LiveSum(recs)]
    /\ recCache = NoFrame
    /\ balCache = NoBalance
    /\ now = 3
    /\ pc = [s \in Sessions |-> "idle"]
    /\ call = [s \in Sessions |-> NoCall]
    /\ snap = [s \in Sessions |-> 0]
    /\ dirty = [s \in Sessions |-> FALSE]
    /\ attempts = [s \in Sessions |-> 0]
    /\ df = [s \in Sessions |-> NoFrame]
    /\ last = NoLast
    /\ added = NoRecords
    /\ committed = 0
    /\ nDeletes = 0
    /\ nEdits = 0
    /\ failures = FALSE
    /\ lost = 0
    /\ overridden = FALSE
    /\ createdAt = NoRecords
    /\ account = 0
    /\ accCache = NoBalance
    /\ accDeltas = 0
    /\ ledger = <<>>
    /\ view = [df |-> <<>>, empty |-> TRUE, month |-> [y |-> 0, m |-> 0],
               total_income |-> 0, total_expense |-> 0, net_flow |-> 0]

\* a new household: no records, no balance document
Init == InitWith(NoRecords)

(* ------------------------------ actions -------------------------------- *)

\* the clock advances
Tick(step) ==
    /\ now + step <= MaxNow
    /\ now' = now + step
    /\ UNCHANGED <<records, nextId, balanceDoc, recCache, balCache, pc, call,
                   snap, dirty, attempts, df, last, added, committed, nDeletes, nEdits,
                   failures,
                   lost, overridden, createdAt, account, accCache, accDeltas, ledger, view>>

\* a script run that called no handler ends; the next run lists again
EndRun(s) ==
    /\ pc[s] = "idle"
    /\ df[s].valid
    /\ df' = [df EXCEPT ![s] = NoFrame]
    /\ UNCHANGED <<records, nextId, balanceDoc, recCache, balCache, now, pc,
                   call, snap, dirty, attempts, last, added, committed, nDeletes, nEdits,
                   failures,
                   lost, overridden, createdAt, account, accCache, accDeltas, ledger, view>>

\* the entry of get_all_records' cache expires (ttl=60)
CacheExpire ==
    /\ recCache.valid
    /\ recCache' = NoFrame
    /\ UNCHANGED <<records, nextId, balanceDoc, balCache, now, pc, call, snap,
                   dirty, attempts, df, last, added, committed, nDeletes, nEdits, failures,
                   lost, overridden, createdAt, account, accCache, accDeltas, ledger, view>>

\* get_all_records as a script run calls it: the cached DataFrame when there
\* is one, else the query, its rows normalised, the result cached; ok = FALSE
\* is the query raising, which returns (and caches) the empty DataFrame
GetAllRecords(s, ok) ==
    /\ pc[s] = "idle"
    /\ ~df[s].valid
    /\ LET rows == IF recCache.valid THEN recCache.rows
                   ELSE IF ok THEN FrameOf(records) ELSE EmptyFrame
       IN  /\ df' = [df EXCEPT ![s] = [valid |-> TRUE, rows |-> rows]]
           /\ recCache' = [valid |-> TRUE, rows |-> rows]
    /\ UNCHANGED <<records, nextId, balanceDoc, balCache, now, pc, call, snap,
                   dirty, attempts, last, added, committed, nDeletes, nEdits, failures,
                   lost, overridden, createdAt, account, accCache, accDeltas, ledger, view>>

\* an add_record that stores the 'timestamp' its caller supplied
StoredDocKeepsTimestamp(rd, h, kind) ==
    [date      |-> TimeField(kind, StoredDate(rd.date, h)),
     timestamp |-> TimeField(kind, rd.timestamp),
     type      |-> rd.type,
     category  |-> rd.category,
     amount    |-> rd.amount]

\* the document add_record stores for record_data rd at instant h: lines
\* 395-412 set 'date' and 'timestamp'; kind is the type the client hands the
\* two stored times back as
StoredDoc(rd, h, kind) ==
    [date      |-> TimeField(kind, StoredDate(rd.date, h)),
     timestamp |-> TimeField(kind, NowUtc(h)),
     type      |-> rd.type,
     category  |-> rd.category,
     amount    |-> rd.amount]

\* a handler that updates the balance whether or not its record write raised
BalanceStepAlways(ok) == TRUE

\* add_record and delete_record go on to update_balance_transactional only
\* when the record write before it (line 414, line 431) did not raise: the
\* write is inside the try block, so a failure jumps to the except branch
BalanceStepAfter(ok) == ok

\* the save handler of display_record_input and display_quick_entry_on_home
\* up to add_record's call of update_balance_transactional; acct is whether
\* a payment account is selected. The document is added (ok) and the toast
\* shown; when the add raises (~ok) the except branch shows the error and
\* add_record returns None: the handler goes on to the payment account when
\* one is selected, else to st.cache_data.clear() and st.rerun()
FormSave(s, rd, kind, ok, acct) ==
    /\ pc[s] = "idle"
    /\ nextId <= MaxRecords
    /\ nextId' = nextId + 1
    /\ LET warn == IF rd.date = NoDate THEN {"warn_date"} ELSE {}
           c == [NoCall EXCEPT !.op = "add", !.type = rd.type,
                               !.category = rd.category, !.amount = rd.amount,
                               !.before = Balance, !.account = acct]
       IN  /\ IF ok
              THEN /\ records' = (nextId :> StoredDoc(rd, now, kind)) @@ records
                   /\ added' = (nextId :> rd) @@ added
                   /\ createdAt' = (nextId :> now) @@ createdAt
              ELSE UNCHANGED <<records, added, createdAt>>
           /\ IF BalanceStepAfter(ok)
              THEN /\ call' = [call EXCEPT ![s] =
                                 [c EXCEPT !.id = IF ok THEN nextId ELSE 0,
                                           !.change = AmountChange(rd.amount, AddOperation(rd.type)),
                                           !.shown = warn \cup (IF ok THEN {"toast_added"}
                                                                      ELSE {"error_add"})]]
                   /\ pc' = [pc EXCEPT ![s] = "ubt_read"]
                   /\ UNCHANGED <<df, last, failures, recCache, balCache, accCache>>
              ELSE /\ last' = [NoLast EXCEPT !.call = [c EXCEPT !.shown = warn \cup {"error_add"}],
                                             !.ret = "None"]
                   /\ failures' = TRUE
                   /\ IF acct
                      THEN /\ call' = [call EXCEPT ![s] = [c EXCEPT !.shown = warn \cup {"error_add"}]]
                           /\ pc' = [pc EXCEPT ![s] = "ba_load"]
                           /\ UNCHANGED <<df, recCache, balCache, accCache>>
                      ELSE /\ df' = [df EXCEPT ![s] = NoFrame]
                           /\ recCache' = NoFrame
                           /\ balCache' = NoBalance
                           /\ accCache' = NoBalance
                           /\ UNCHANGED <<call, pc>>
    /\ UNCHANGED <<balanceDoc, now, snap, dirty, attempts, committed, nDeletes, nEdits,
                   lost, overridden, account, accDeltas, ledger, view>>

\* the save handler with no payment account selected: add_record, then
\* st.cache_data.clear() and st.rerun()
AddRecordWrite(s, rd, kind, ok) == FormSave(s, rd, kind, ok, FALSE)

\* delete_record up to its call of update_balance_transactional, for the row
\* id of the session's DataFrame (display_records_list passes the row's id,
\* type and amount): the document delete (which succeeds whether or not the
\* document exists), the cache clear, the toast; when the delete raises the
\* except branch shows the error and the call returns None
DeleteRecordWrite(s, id, ok) ==
    /\ pc[s] = "idle"
    /\ df[s].valid
    /\ id \in DOMAIN df[s].rows
    /\ nDeletes < MaxDeletes
    /\ nDeletes' = nDeletes + 1
    /\ LET row == df[s].rows[id]
           c == [NoCall EXCEPT !.op = "delete", !.id = id, !.type = row.type,
                               !.amount = row.amount,
                               !.existed = id \in DOMAIN records,
                               !.before = Balance,
                               !.old = IF id \in DOMAIN records
                                       THEN [type |-> records[id].type,
                                             amount |-> records[id].amount]
                                       ELSE NoCall.old]
       IN  /\ IF ok
              THEN /\ records' = [i \in DOMAIN records \ {id} |-> records[i]]
                   /\ recCache' = NoFrame
              ELSE UNCHANGED <<records, recCache>>
           /\ IF BalanceStepAfter(ok)
              THEN /\ call' = [call EXCEPT ![s] =
                                 [c EXCEPT !.change = AmountChange(row.amount, DeleteOperation(row.type)),
                                           !.shown = IF ok THEN {"toast_deleted"}
                                                           ELSE {"error_delete"}]]
                   /\ pc' = [pc EXCEPT ![s] = "ubt_read"]
                   /\ UNCHANGED <<last, failures>>
              ELSE /\ last' = [NoLast EXCEPT !.call = [c EXCEPT !.shown = {"error_delete"}],
                                             !.ret = "None"]
                   /\ failures' = TRUE
                   /\ UNCHANGED <<call, pc>>
    /\ UNCHANGED <<nextId, balanceDoc, balCache, now, snap, dirty, attempts, df,
                   added, committed, nEdits,
                   lost, overridden, createdAt, account, accCache, accDeltas, ledger, view>>

\* transaction_update lines 268-270: the transaction reads the balance
\* document (absent is 0.0); new_balance is snap + amount_change
UbtRead(s) ==
    /\ pc[s] = "ubt_read"
    /\ snap' = [snap EXCEPT ![s] = Balance]
    /\ dirty' = [dirty EXCEPT ![s] = FALSE]
    /\ pc' = [pc EXCEPT ![s] = "ubt_commit"]
    /\ UNCHANGED <<records, nextId, balanceDoc, recCache, balCache, now, call,
                   attempts, df, last, added, committed, nDeletes, nEdits, failures,
                   lost, overridden, createdAt, account, accCache, accDeltas, ledger, view>>

\* a commit that is never refused: a plain read followed by a write
CommitConflictNever(s) == FALSE

\* the commit of a transaction is refused when the balance document was
\* written after the transaction read it
CommitConflict(s) == dirty[s]

\* what the handler's caller gets once update_balance_transactional has
\* returned: add_record falls off its end (None), delete_record calls
\* st.rerun(), which leaves the script run through its control-flow exception
HandlerReturn(op) == IF op = "delete" THEN "Rerun" ELSE "None"

\* what update_balance_transactional shows when its transaction failed
\* (the except branch of lines 281-282) and when it did not
UbtShown(failed) == IF failed THEN {"error_balance"} ELSE {}

\* what update_balance_transactional returns: it falls off its end after
\* line 280 and after line 282 alike
UbtResult(failed) == "None"

\* update_balance_transactional returns and the handler that called it
\* ends, or goes on to the payment account when the form has one selected;
\* n is the number of commit attempts that failed
UbtReturn(s, failed, n) ==
    /\ last' = [call     |-> [call[s] EXCEPT !.shown = @ \cup UbtShown(failed)],
                wrote    |-> TRUE,
                applied  |-> ~failed,
                attempts |-> n,
                ubt      |-> UbtResult(failed),
                ret      |-> HandlerReturn(call[s].op)]
    /\ failures' = (failures \/ failed)
    /\ lost' = IF failed THEN lost + call[s].change ELSE lost
    /\ call' = [call EXCEPT ![s] = IF call[s].account THEN call[s] ELSE NoCall]
    /\ pc' = [pc EXCEPT ![s] = IF call[s].account THEN "ba_load" ELSE "idle"]
    /\ df' = [df EXCEPT ![s] = NoFrame]
    /\ snap' = [snap EXCEPT ![s] = 0]
    /\ attempts' = [attempts EXCEPT ![s] = 0]

\* the caches once the handler that called update_balance_transactional has
\* ended: lines 279-280 clear both after a commit; after a failed update the
\* form handlers that call add_record go on to st.cache_data.clear() and
\* update_record clears both (lines 496-497), delete_record clears nothing
\* more (it cleared get_all_records' cache at line 435)
CachesCleared(op, failed) == ~failed \/ op # "delete"

\* a transaction that retries without limit
RetryBudgetUnbounded(n) == TRUE

\* the attempt that has just been refused was not the last one: the
\* transaction of db.transaction() makes MAX_ATTEMPTS attempts
RetryBudgetLeft(n) == n + 1 < MAX_ATTEMPTS

\* a handler that takes its record write back when the balance update failed
RecordsRolledBack(s, failed) ==
    IF failed /\ call[s].op = "add"
    THEN [i \in DOMAIN records \ {call[s].id} |-> records[i]]
    ELSE records

\* the records collection once update_balance_transactional has ended: the
\* except branch of lines 281-282 shows the error and nothing else, and the
\* handlers do nothing to the record after the call
RecordsAfterUpdate(s, failed) == records

\* update_balance_transactional ends after n failed commit attempts
UbtEnd(s, failed, n) ==
    /\ UbtReturn(s, failed, n)
    /\ records' = RecordsAfterUpdate(s, failed)
    /\ IF CachesCleared(call[s].op, failed) /\ (call[s].account => ~failed)
       THEN recCache' = NoFrame /\ balCache' = NoBalance
       ELSE UNCHANGED <<recCache, balCache>>
    /\ IF call[s].op = "add" /\ ~call[s].account
       THEN accCache' = NoBalance
       ELSE UNCHANGED accCache

\* the commit of the transaction (line 271 and the @firestore.transactional
\* wrapper): ok = FALSE is the store failing, which is not retried; a refused
\* commit is retried from the read until MAX_ATTEMPTS attempts have failed; a
\* commit writes snap + amount_change and lines 279-280 clear the caches
UbtCommit(s, ok) ==
    /\ pc[s] = "ubt_commit"
    /\ IF ~ok
       THEN /\ UbtEnd(s, TRUE, attempts[s] + 1)
            /\ dirty' = [dirty EXCEPT ![s] = FALSE]
            /\ UNCHANGED <<balanceDoc, committed>>
       ELSE IF CommitConflict(s)
       THEN /\ IF RetryBudgetLeft(attempts[s])
               THEN /\ pc' = [pc EXCEPT ![s] = "ubt_read"]
                    /\ attempts' = [attempts EXCEPT ![s] = @ + 1]
                    /\ UNCHANGED <<call, last, df, snap, failures, recCache,
                                   balCache, records, lost, accCache>>
               ELSE UbtEnd(s, TRUE, attempts[s] + 1)
            /\ dirty' = [dirty EXCEPT ![s] = FALSE]
            /\ UNCHANGED <<balanceDoc, committed>>
       ELSE /\ balanceDoc' = [exists |-> TRUE, balance |-> snap[s] + call[s].change]
            /\ dirty' = [t \in Sessions |-> t # s /\ pc[t] = "ubt_commit"]
            /\ committed' = committed + call[s].change
            /\ UbtEnd(s, FALSE, attempts[s])
    /\ UNCHANGED <<nextId, now, added, nDeletes, nEdits,
                   overridden, createdAt, account, accDeltas, ledger, view>>

\* set_balance, as display_balance_management calls it before st.rerun():
\* the balance document is overwritten outside any transaction (ok), which
\* makes every transaction that has read it stale; when the write raises
\* the except branch shows the error
SetBalance(s, x, ok) ==
    /\ pc[s] = "idle"
    /\ LET c == [NoCall EXCEPT !.op = "set_balance", !.amount = x, !.before = Balance]
       IN  IF ok
           THEN /\ balanceDoc' = [exists |-> TRUE, balance |-> x]
                /\ balCache' = NoBalance
                /\ committed' = x
                /\ overridden' = TRUE
                /\ dirty' = [t \in Sessions |-> dirty[t] \/ pc[t] = "ubt_commit"]
                /\ last' = [NoLast EXCEPT !.call = [c EXCEPT !.shown = {"toast_balance"}],
                                          !.wrote = TRUE, !.applied = TRUE, !.ret = "None"]
                /\ UNCHANGED failures
           ELSE /\ last' = [NoLast EXCEPT !.call = [c EXCEPT !.shown = {"error_set_balance"}],
                                          !.ret = "None"]
                /\ failures' = TRUE
                /\ UNCHANGED <<balanceDoc, balCache, committed, dirty, overridden>>
    /\ df' = [df EXCEPT ![s] = NoFrame]
    /\ UNCHANGED <<records, nextId, recCache, now, pc, call, snap, attempts,
                   added, nDeletes, nEdits,
                   lost, createdAt, account, accCache, accDeltas, ledger, view>>

\* |n|
Abs(n) == IF n < 0 THEN 0 - n ELSE n

\* update_record lines 474-490: the net balance change of an edit, from the
\* type and amount of old_data and new_data
OldEffect(old) == IF old.type = INCOME THEN old.amount ELSE 0 - old.amount
NewEffect(new) == IF new.type = INCOME THEN new.amount ELSE 0 - new.amount

\* an edit that applies the new effect on top of the old one
NetBalanceChangeNewOnly(new, old) == NewEffect(new)

NetBalanceChange(new, old) == NewEffect(new) - OldEffect(old)

\* an update that goes through whether or not the document exists
UpdateUpserts(ok, exists) == ok

\* record_doc_ref.update() (lines 465-471) writes when the store does not
\* fail and the document exists; it raises NotFound for a missing document
UpdateApplies(ok, exists) == ok /\ exists

\* update_record for the row id of the session's DataFrame, with new_data nd
\* (display_records_list passes the row's type and amount as old_data), up
\* to its call of update_balance_transactional: the document update, which
\* raises when the store fails (~ok) or the document does not exist; with a
\* net change of 0 the balance is left alone and the call ends at once,
\* toast shown and caches cleared
UpdateRecordWrite(s, id, nd, kind, ok) ==
    /\ pc[s] = "idle"
    /\ df[s].valid
    /\ id \in DOMAIN df[s].rows
    /\ nEdits < MaxEdits
    /\ nEdits' = nEdits + 1
    /\ LET row == df[s].rows[id]
           net == NetBalanceChange(nd, row)
           c == [NoCall EXCEPT !.op = "update", !.id = id, !.type = nd.type,
                               !.category = nd.category, !.amount = nd.amount,
                               !.existed = id \in DOMAIN records,
                               !.before = Balance,
                               !.old = [type |-> row.type, amount |-> row.amount],
                               !.fresh = /\ id \in DOMAIN records
                                         /\ records[id].type = row.type
                                         /\ records[id].amount = row.amount,
                               !.liveBefore = LiveSum(records)]
       IN  IF UpdateApplies(ok, id \in DOMAIN records)
           THEN /\ records' = [records EXCEPT ![id] =
                                 [@ EXCEPT !.date = TimeField(kind, CombineMidnight(nd.date, "UTC")),
                                           !.type = nd.type,
                                           !.category = nd.category,
                                           !.amount = nd.amount]]
                /\ IF net = 0
                   THEN /\ last' = [NoLast EXCEPT !.call = [c EXCEPT !.shown = {"toast_updated"}],
                                                  !.wrote = TRUE, !.ret = "None"]
                        /\ recCache' = NoFrame
                        /\ balCache' = NoBalance
                        /\ df' = [df EXCEPT ![s] = NoFrame]
                        /\ UNCHANGED <<call, pc>>
                   ELSE /\ call' = [call EXCEPT ![s] =
                                      [c EXCEPT !.change = AmountChange(Abs(net),
                                                    IF net > 0 THEN "add" ELSE "subtract"),
                                                !.shown = {"toast_updated"}]]
                        /\ pc' = [pc EXCEPT ![s] = "ubt_read"]
                        /\ UNCHANGED <<last, recCache, balCache, df>>
                /\ UNCHANGED failures
           ELSE /\ last' = [NoLast EXCEPT !.call = [c EXCEPT !.shown = {"error_update"}],
                                          !.ret = "None"]
                /\ df' = [df EXCEPT ![s] = NoFrame]
                /\ failures' = TRUE
                /\ UNCHANGED <<records, recCache, balCache, call, pc>>
    /\ UNCHANGED <<nextId, balanceDoc, now, snap, dirty, attempts, added, committed,
                   nDeletes,
                   lost, overridden, createdAt, account, accCache, accDeltas, ledger, view>>

\* the entry of get_current_balance's cache expires (ttl=60)
BalanceCacheExpire ==
    /\ balCache.valid
    /\ balCache' = NoBalance
    /\ UNCHANGED <<records, nextId, balanceDoc, recCache, now, pc, call, snap,
                   dirty, attempts, df, last, added, committed, nDeletes, nEdits, failures,
                   lost, overridden, createdAt, account, accCache, accDeltas, ledger, view>>

\* another session is computing the cached function: st.cache_data lets one
\* caller at a time compute a missing entry, the others wait for it
Computing(s, where) == \E t \in Sessions \ {s} : pc[t] = where

\* get_all_records finds no cache entry and runs its query (line 299): the
\* rows are those of the collection at this instant
GarQuery(s) ==
    /\ pc[s] = "idle"
    /\ ~df[s].valid
    /\ ~recCache.valid
    /\ ~Computing(s, "gar")
    /\ df' = [df EXCEPT ![s] = [valid |-> FALSE, rows |-> FrameOf(records)]]
    /\ pc' = [pc EXCEPT ![s] = "gar"]
    /\ UNCHANGED <<records, nextId, balanceDoc, recCache, balCache, now, call,
                   snap, dirty, attempts, last, added, committed, nDeletes, nEdits, failures,
                   lost, overridden, createdAt, account, accCache, accDeltas, ledger, view>>

\* get_all_records returns the DataFrame built from the rows it queried and
\* st.cache_data stores it, whatever was cleared in between
GarStore(s) ==
    /\ pc[s] = "gar"
    /\ df' = [df EXCEPT ![s] = [valid |-> TRUE, rows |-> df[s].rows]]
    /\ recCache' = [valid |-> TRUE, rows |-> df[s].rows]
    /\ pc' = [pc EXCEPT ![s] = "idle"]
    /\ UNCHANGED <<records, nextId, balanceDoc, balCache, now, call, snap, dirty,
                   attempts, last, added, committed, nDeletes, nEdits, failures,
                   lost, overridden, createdAt, account, accCache, accDeltas, ledger, view>>

\* get_current_balance finds no cache entry and reads the balance document
\* (line 236), outside any transaction
GcbRead(s) ==
    /\ pc[s] = "idle"
    /\ ~balCache.valid
    /\ ~Computing(s, "gcb")
    /\ call' = [call EXCEPT ![s] =
                  [NoCall EXCEPT !.op = "get_current_balance",
                                 !.existed = balanceDoc.exists,
                                 !.amount = Balance,
                                 !.before = Balance]]
    /\ pc' = [pc EXCEPT ![s] = "gcb"]
    /\ UNCHANGED <<records, nextId, balanceDoc, recCache, balCache, now, snap,
                   dirty, attempts, df, last, added, committed, nDeletes, nEdits, failures,
                   lost, overridden, createdAt, account, accCache, accDeltas, ledger, view>>

\* the balance get_current_balance returns for the document it read: the
\* stored balance, 0.0 when there was no document
GcbValue(c) == IF c.existed THEN c.amount ELSE 0

\* the rest of get_current_balance (lines 237-246): when the document it
\* read did not exist it writes {'balance': 0.0} (ok; a failure of that
\* write is shown and otherwise ignored); it returns the balance, which
\* st.cache_data stores; last.call.amount and last.call.existed are what it
\* read
GcbFinish(s, ok) ==
    /\ pc[s] = "gcb"
    /\ call[s].existed => ok
    /\ IF ~call[s].existed /\ ok
       THEN /\ balanceDoc' = [exists |-> TRUE, balance |-> 0]
            /\ dirty' = [t \in Sessions |-> dirty[t] \/ pc[t] = "ubt_commit"]
       ELSE UNCHANGED <<balanceDoc, dirty>>
    /\ balCache' = [valid |-> TRUE, value |-> GcbValue(call[s])]
    /\ last' = [NoLast EXCEPT !.call = [call[s] EXCEPT !.shown = IF ok THEN {} ELSE {"error_init"}],
                              !.wrote = ~call[s].existed /\ ok,
                              !.ret = "balance"]
    /\ failures' = (failures \/ ~ok)
    /\ call' = [call EXCEPT ![s] = NoCall]
    /\ pc' = [pc EXCEPT ![s] = "idle"]
    /\ UNCHANGED <<records, nextId, recCache, now, snap, attempts, df,
                   added, committed, nDeletes, nEdits,
                   lost, overridden, createdAt, account, accCache, accDeltas, ledger, view>>

(* --------------------------- payment accounts --------------------------- *)

\* the balance load_bank_accounts returns for the payment account: the
\* cached one when there is a cache entry, else the stored one; when the
\* read raises (~ok) the function returns {}, in which the account has no
\* entry and the handler takes its balance as 0
LoadedBalance(ok) ==
    IF accCache.valid THEN accCache.value
    ELSE IF ok THEN account ELSE 0

\* a script run renders the form of display_record_input, which calls
\* load_bank_accounts (line 749) for the list of payment accounts
RenderForm(s, ok) ==
    /\ pc[s] = "idle"
    /\ ~accCache.valid
    /\ accCache' = [valid |-> TRUE, value |-> LoadedBalance(ok)]
    /\ failures' = (failures \/ ~ok)
    /\ UNCHANGED <<records, nextId, balanceDoc, recCache, balCache, now, pc, call, snap,
                   dirty, attempts, df, last, added, committed, nDeletes, nEdits,
                   lost, overridden, createdAt, account, accDeltas, ledger, view>>

\* the entry of load_bank_accounts' cache expires (ttl=300)
AccCacheExpire ==
    /\ accCache.valid
    /\ accCache' = NoBalance
    /\ UNCHANGED <<records, nextId, balanceDoc, recCache, balCache, now, pc, call, snap,
                   dirty, attempts, df, last, added, committed, nDeletes, nEdits, failures,
                   lost, overridden, createdAt, account, accDeltas, ledger, view>>

\* a handler that credits the payment account whatever the record's type
AccountDeltaCredit(type, amount) == amount

\* the delta of the payment account for a saved transaction (line 835):
\* minus the amount for an expense, plus the amount otherwise
AccountDelta(type, amount) == IF type = EXPENSE THEN 0 - amount ELSE amount

\* the save handler after add_record has returned, a payment account being
\* selected (lines 827-834): load_bank_accounts and the account's
\* current_bal, kept in snap
BaLoad(s, ok) ==
    /\ pc[s] = "ba_load"
    /\ accCache.valid => ok
    /\ snap' = [snap EXCEPT ![s] = LoadedBalance(ok)]
    /\ accCache' = [valid |-> TRUE, value |-> LoadedBalance(ok)]
    /\ failures' = (failures \/ ~ok)
    /\ pc' = [pc EXCEPT ![s] = "ba_update"]
    /\ UNCHANGED <<records, nextId, balanceDoc, recCache, balCache, now, call,
                   dirty, attempts, df, last, added, committed, nDeletes, nEdits,
                   lost, overridden, createdAt, account, accDeltas, ledger, view>>

\* the rest of the save handler (lines 835-847): update_bank_accounts
\* writes current_bal + delta outside any transaction (ok; when the write
\* raises the error is shown), then st.cache_data.clear() and st.rerun()
BaUpdate(s, ok) ==
    /\ pc[s] = "ba_update"
    /\ LET delta == AccountDelta(call[s].type, call[s].amount)
       IN  IF ok
           THEN /\ account' = snap[s] + delta
                /\ accDeltas' = accDeltas + delta
                /\ UNCHANGED failures
           ELSE /\ failures' = TRUE
                /\ UNCHANGED <<account, accDeltas>>
    /\ recCache' = NoFrame
    /\ balCache' = NoBalance
    /\ accCache' = NoBalance
    /\ df' = [df EXCEPT ![s] = NoFrame]
    /\ snap' = [snap EXCEPT ![s] = 0]
    /\ call' = [call EXCEPT ![s] = NoCall]
    /\ pc' = [pc EXCEPT ![s] = "idle"]
    /\ UNCHANGED <<records, nextId, balanceDoc, now, dirty, attempts, last, added,
                   committed, nDeletes, nEdits, lost, overridden, createdAt, ledger, view>>

(* --------------------------- specifications ---------------------------- *)

Today == NowUtc(3).date

\* record_data of concurrent callers
LedgerInputs == {[date |-> Today, type |-> INCOME, category |-> "Salary", amount |-> 100]}

\* one step of session s, with record_data drawn from inputs
Step(s, inputs) ==
    \/ GetAllRecords(s, TRUE)
    \/ \E rd \in inputs, ok \in BOOLEAN : AddRecordWrite(s, rd, "datetime", ok)
    \/ \E id \in DOMAIN df[s].rows, ok \in BOOLEAN : DeleteRecordWrite(s, id, ok)
    \/ UbtRead(s)
    \/ \E ok \in BOOLEAN : UbtCommit(s, ok)

\* the sessions run their handlers concurrently
Next == \E s \in Sessions : Step(s, LedgerInputs)

Spec == Init /\ [][Next]_vars

\* record_data of the calls made one at a time
SeqInputs ==
    {[date |-> Today, type |-> EXPENSE, category |-> "Food", amount |-> 120],
     [date |-> Today, type |-> INCOME, category |-> "Salary", amount |-> 5000]}

\* the handlers run one at a time: a session steps only while no other
\* session is inside a handler
NextSeq ==
    \E s \in Sessions :
        /\ \A t \in Sessions \ {s} : pc[t] = "idle"
        /\ Step(s, SeqInputs)

SpecSeq == Init /\ [][NextSeq]_vars

\* record_data as add_record accepts it, whatever the forms would let through
RawInputs ==
    {[date |-> Today, type |-> EXPENSE, category |-> "Food", amount |-> 0],
     [date |-> Today, type |-> INCOME, category |-> "Salary", amount |-> 0 - 5],
     [date |-> Today, type |-> EXPENSE, category |-> "Food", amount |-> 120],
     [date |-> Today, type |-> EXPENSE, category |-> "", amount |-> 120],
     [date |-> Today, type |-> "transfer", category |-> "Food", amount |-> 120]}

NextRaw ==
    \E s \in Sessions :
        /\ \A t \in Sessions \ {s} : pc[t] = "idle"
        /\ Step(s, RawInputs)

\* add_record called one at a time with any record_data
SpecRaw == Init /\ [][NextRaw]_vars

\* the balances entered in the form of display_balance_management
OverrideValues == {1000}

\* session 1 runs the handlers while session 2 sets the balance by hand; the
\* store does not fail under a transaction, so that a transaction fails only
\* by running out of attempts
NextOverride ==
    \/ GetAllRecords(1, TRUE)
    \/ \E rd \in LedgerInputs : AddRecordWrite(1, rd, "datetime", TRUE)
    \/ \E id \in DOMAIN df[1].rows : DeleteRecordWrite(1, id, TRUE)
    \/ UbtRead(1)
    \/ UbtCommit(1, TRUE)
    \/ \E x \in OverrideValues, ok \in BOOLEAN : SetBalance(2, x, ok)

SpecOverride == Init /\ [][NextOverride]_vars

\* session 1 runs the handlers while session 2 sets the balance by hand and
\* reads it with get_current_balance
NextAdmin ==
    \/ GetAllRecords(1, TRUE)
    \/ \E rd \in LedgerInputs : AddRecordWrite(1, rd, "datetime", TRUE)
    \/ \E id \in DOMAIN df[1].rows : DeleteRecordWrite(1, id, TRUE)
    \/ UbtRead(1)
    \/ \E ok \in BOOLEAN : UbtCommit(1, ok)
    \/ \E x \in OverrideValues, ok \in BOOLEAN : SetBalance(2, x, ok)
    \/ GcbRead(2)
    \/ \E ok \in BOOLEAN : GcbFinish(2, ok)
    \/ BalanceCacheExpire

SpecAdmin == Init /\ [][NextAdmin]_vars

\* one step of a session whose calls of the two cached functions take time:
\* other sessions run between the read of the store and the return
CachedStep(s) ==
    \/ recCache.valid /\ GetAllRecords(s, TRUE)
    \/ GarQuery(s)
    \/ GarStore(s)
    \/ GcbRead(s)
    \/ \E ok \in BOOLEAN : GcbFinish(s, ok)
    \/ \E rd \in LedgerInputs : AddRecordWrite(s, rd, "datetime", TRUE)
    \/ \E id \in DOMAIN df[s].rows : DeleteRecordWrite(s, id, TRUE)
    \/ UbtRead(s)
    \/ \E ok \in BOOLEAN : UbtCommit(s, ok)

\* the sessions run concurrently; the cache entries expire
NextCache ==
    \/ \E s \in Sessions : CachedStep(s)
    \/ CacheExpire
    \/ BalanceCacheExpire

SpecCache == Init /\ [][NextCache]_vars

\* new_data of the edits: of the income of 100 to an expense and to a larger
\* income, of each of the two to the other and to itself
EditInputs ==
    {[date |-> Today, type |-> EXPENSE, category |-> "Food", amount |-> 120],
     [date |-> Today, type |-> INCOME, category |-> "Salary", amount |-> 5000]}

\* the handlers, update_record among them, run one at a time; the store
\* fails under update_record and under the balance update
NextEdit ==
    \E s \in Sessions :
        /\ \A t \in Sessions \ {s} : pc[t] = "idle"
        /\ \/ GetAllRecords(s, TRUE)
           \/ \E rd \in LedgerInputs :
                 /\ nextId <= MaxEditAdds
                 /\ AddRecordWrite(s, rd, "datetime", TRUE)
           \/ \E id \in DOMAIN df[s].rows : DeleteRecordWrite(s, id, TRUE)
           \/ \E id \in DOMAIN df[s].rows, nd \in EditInputs, ok \in BOOLEAN :
                 UpdateRecordWrite(s, id, nd, "datetime", ok)
           \/ UbtRead(s)
           \/ \E ok \in BOOLEAN : UbtCommit(s, ok)

SpecEdit == Init /\ [][NextEdit]_vars

\* two sessions save transactions charged to the same payment account; the
\* store may fail under add_record and under the accounts document
NextAccounts ==
    \/ \E s \in Sessions :
          \/ \E rd \in LedgerInputs, ok \in BOOLEAN : FormSave(s, rd, "datetime", ok, TRUE)
          \/ UbtRead(s)
          \/ UbtCommit(s, TRUE)
          \/ \E ok \in BOOLEAN : BaLoad(s, ok)
          \/ \E ok \in BOOLEAN : BaUpdate(s, ok)
          \/ \E ok \in BOOLEAN : RenderForm(s, ok)
    \/ AccCacheExpire

SpecAccounts == Init /\ [][NextAccounts]_vars

(* --------------------- the SQLite version (app.py) --------------------- *)

\* the rows table ledger can hold
MaxRows == 3

DigitChar(n) ==
    CASE n = 0 -> "0" [] n = 1 -> "1" [] n = 2 -> "2" [] n = 3 -> "3"
      [] n = 4 -> "4" [] n = 5 -> "5" [] n = 6 -> "6" [] n = 7 -> "7"
      [] n = 8 -> "8" [] n = 9 -> "9"

\* n written with w digits, zero-padded
RECURSIVE Pad(_, _)
Pad(n, w) == IF w = 0 THEN <<>> ELSE Pad(n \div 10, w - 1) \o <<DigitChar(n % 10)>>

\* date.strftime('%Y-%m-%d')
Strftime(date) == Pad(date.y, 4) \o <<"-">> \o Pad(date.m, 2) \o <<"-">> \o Pad(date.d, 2)

\* the code point of a character of a stored date
CharCode(c) == IF c = "-" THEN 45 ELSE 48 + DigitVal(c)

\* a < b as SQLite compares TEXT values (byte by byte, the shorter first)
RECURSIVE TextLess(_, _)
TextLess(a, b) ==
    IF b = <<>> THEN FALSE
    ELSE IF a = <<>> THEN TRUE
    ELSE IF CharCode(a[1]) # CharCode(b[1]) THEN CharCode(a[1]) < CharCode(b[1])
    ELSE TextLess(Tail(a), Tail(b))

\* row r put into rows, which are in descending order of date, after the
\* rows that are not before it
RECURSIVE InsertDesc(_, _)
InsertDesc(rows, r) ==
    IF rows = <<>> THEN <<r>>
    ELSE IF TextLess(rows[1].date, r.date) THEN <<r>> \o rows
    ELSE <<rows[1]>> \o InsertDesc(Tail(rows), r)

\* SELECT * FROM ledger ORDER BY date DESC (rows of one date in the order
\* of their insertion)
RECURSIVE OrderByDateDesc(_)
OrderByDateDesc(rows) ==
    IF rows = <<>> THEN <<>>
    ELSE InsertDesc(OrderByDateDesc(SubSeq(rows, 1, Len(rows) - 1)), rows[Len(rows)])

\* an amount_adj that keeps the sign of the amount whatever the type
AmountAdjUnsigned(type, amount) == amount

\* the lambda of get_all_transactions: amount for 'Income', -amount otherwise
AmountAdj(type, amount) == IF type = "Income" THEN amount ELSE 0 - amount

\* one row of the DataFrame of get_all_transactions: the columns of the
\* table, 'date' parsed by pd.to_datetime, and amount_adj
FrameRow(r) ==
    [date       |-> StrpDate(r.date),
     category   |-> r.category,
     amount     |-> r.amount,
     type       |-> r.type,
     amount_adj |-> AmountAdj(r.type, r.amount)]

\* get_all_transactions() on the table rows
GetAllTransactions(rows) ==
    LET sorted == OrderByDateDesc(rows)
    IN  [i \in 1..Len(sorted) |-> FrameRow(sorted[i])]

\* df['date'].dt.to_period('M') of one row
MonthYear(date) == [y |-> date.y, m |-> date.m]

\* df[...]['amount'].sum() over the rows of the month that have type ty
RECURSIVE TypeTotal(_, _, _)
TypeTotal(frame, month, ty) ==
    IF frame = <<>> THEN 0
    ELSE (IF MonthYear(frame[1].date) = month /\ frame[1].type = ty
          THEN frame[1].amount ELSE 0)
         + TypeTotal(Tail(frame), month, ty)

\* what main shows after its form: the warning when there is no row, else
\* the totals of the selected month
Dashboard(frame, month) ==
    IF frame = <<>>
    THEN [df |-> <<>>, empty |-> TRUE, month |-> [y |-> 0, m |-> 0],
          total_income |-> 0, total_expense |-> 0, net_flow |-> 0]
    ELSE [df |-> frame, empty |-> FALSE, month |-> month,
          total_income  |-> TypeTotal(frame, month, "Income"),
          total_expense |-> TypeTotal(frame, month, "Expense"),
          net_flow      |-> TypeTotal(frame, month, "Income")
                            - TypeTotal(frame, month, "Expense")]

\* the months the selectbox offers
AvailableMonths(frame) == {MonthYear(frame[i].date) : i \in 1..Len(frame)}

\* the variables of the Firestore version
firestoreVars == <<records, nextId, balanceDoc, recCache, balCache, now, pc, call, snap,
                   dirty, attempts, df, last, added, committed, nDeletes, nEdits, failures,
                   lost, overridden, createdAt, account, accCache, accDeltas>>

\* a script run of main in which the form was submitted: add_transaction
\* with db_type and db_date, then the dashboard of the month sel
SubmitRun(trans_type, amount, category, date, sel) ==
    /\ Len(ledger) < MaxRows
    /\ LET db_type == IF trans_type = INCOME THEN "Income" ELSE "Expense"
           db_date == Strftime(date)
           rows == Append(ledger, [date |-> db_date, category |-> category,
                                   amount |-> amount, type |-> db_type])
           frame == GetAllTransactions(rows)
       IN  /\ ledger' = rows
           /\ sel \in AvailableMonths(frame)
           /\ view' = Dashboard(frame, sel)
    /\ UNCHANGED firestoreVars

\* a script run of main with no submission, the month sel selected
ViewRun(sel) ==
    /\ LET frame == GetAllTransactions(ledger)
       IN  /\ frame # <<>> => sel \in AvailableMonths(frame)
           /\ frame = <<>> => sel = [y |-> 0, m |-> 0]
           /\ view' = Dashboard(frame, sel)
    /\ UNCHANGED <<ledger, firestoreVars>>

\* the dates, the amounts (in units of 0.01) and the months of the form
FormDates == {MkDate(2024, 1, 31), MkDate(2024, 2, 1)}
FormAmounts == {1, 12000}
FormMonths == {[y |-> 0, m |-> 0]} \cup {MonthYear(d) : d \in FormDates}

NextLedger ==
    \/ \E trans_type \in {INCOME, EXPENSE}, amount \in FormAmounts, date \in FormDates,
          sel \in FormMonths :
          SubmitRun(trans_type, amount, IF trans_type = INCOME THEN "Salary" ELSE "Food",
                    date, sel)
    \/ \E sel \in FormMonths : ViewRun(sel)

SpecLedger == Init /\ [][NextLedger]_vars

(* ------------------------ the dates of the list ------------------------ *)

\* 'date' fields of documents written by earlier revisions of the app
LegacyDateFields ==
    {StrField(<<"2", "0", "2", "4", "-", "0", "1", "-", "3", "1">>),
     StrField(<<"2", "0", "2", "4", "-", "1", "-", "5">>),
     StrField(<<"N", "/", "A">>),
     StrField(<<"2", "0", "2", "4", "/", "0", "1", "/", "3", "1">>),
     StrField(<<"2", "0", "2", "4", "-", "0", "2", "-", "3", "0">>),
     StrField(<<"1", "6", "0", "0", "-", "0", "2", "-", "0", "1">>),
     StrField(<<>>),
     MissingField,
     OtherField,
     TimeField("Timestamp", CombineMidnight(MkDate(2024, 1, 31), "UTC")),
     TimeField("datetime", CombineMidnight(MkDate(2024, 1, 31), "UTC"))}

\* their 'timestamp' fields: created at 2024-02-01T03:00:00Z
LegacyTimestampFields ==
    {TimeField("Timestamp", NowUtc(3)), TimeField("datetime", NowUtc(3)),
     OtherField, MissingField}

LegacyDocs ==
    {[date |-> d, timestamp |-> t, type |-> EXPENSE, category |-> "Food", amount |-> 120] :
        d \in LegacyDateFields, t \in LegacyTimestampFields}

\* the id of the legacy document
LegacyId == 0

InitDates == \E doc \in LegacyDocs : InitWith(LegacyId :> doc)

\* the dates a form hands add_record: yesterday, today and tomorrow of the
\* first UTC day (the form's today is the server's local date), and a value
\* that is no date
InputDates == {MkDate(2024, 1, 31), MkDate(2024, 2, 1), MkDate(2024, 2, 2), NoDate}

DateInputs ==
    {[date |-> d, type |-> EXPENSE, category |-> "Food", amount |-> 120] : d \in InputDates}
    \cup {[date |-> d, type |-> INCOME, category |-> "Salary", amount |-> 5000] : d \in InputDates}

\* the types the client can hand a stored time back as
ReadBackKinds == {"Timestamp", "datetime"}

\* the clock reaches 2024-02-01T23:00Z and 2024-02-02T00:00Z
TickSteps == {20, 21}

\* one session adds records on several days and lists them
NextDates ==
    \/ \E step \in TickSteps : Tick(step)
    \/ \E rd \in DateInputs, kind \in ReadBackKinds :
          /\ nextId <= MaxDateAdds
          /\ AddRecordWrite(1, rd, kind, TRUE)
    \/ UbtRead(1)
    \/ UbtCommit(1, TRUE)
    \/ \E ok \in BOOLEAN : GetAllRecords(1, ok)
    \/ EndRun(1)
    \/ CacheExpire

SpecDates == InitDates /\ [][NextDates]_vars

(* ------------------------------- claims -------------------------------- *)

Quiescent == \A s \in Sessions : pc[s] = "idle"

\* the signed sum of the records ever appended, those of ids in skip left out
AppendedSum(skip) ==
    SumOver([i \in DOMAIN added |-> Signed(added[i].type, added[i].amount)],
            DOMAIN added \ skip)

\* C1: after every prefix of a sequence of add_record and delete_record
\* calls run one at a time, none of which failed, the stored balance is the
\* signed sum of the live records.
C1_BalanceIsLiveSum ==
    (Quiescent /\ ~failures) => Balance = LiveSum(records)

\* C2: whatever the interleaving of the reads and commits of concurrent
\* balance transactions, the stored balance is the initial balance (0, no
\* balance document) plus the sum of the deltas of the committed ones.
C2_NoLostUpdate == Balance = committed

\* C2 witness: a transaction whose first commit was refused because the other
\* session committed in between has retried and committed; both deltas are in.
C2_RetriedAndCommitted ==
    /\ last.applied
    /\ last.attempts >= 1
    /\ committed = 200
    /\ Balance = 200

\* C3: delete_record for an id that has no live record (the store being
\* reachable) ends with a RecordNotFound outcome and commits no balance change.
C3_DeleteOfMissingFails ==
    (/\ last.call.op = "delete"
     /\ ~last.call.existed
     /\ "error_delete" \notin last.call.shown)
    => (last.ret = "RecordNotFound" /\ ~last.applied)

\* C4: add_record with an amount of 0 or less is rejected before any store
\* access: it never gets as far as the record write, and it ends with a
\* ValidationError outcome, no record written and no balance change.
C4_NonPositiveAmountRejected ==
    /\ \A s \in Sessions : call[s].op = "add" => call[s].amount > 0
    /\ (last.call.op = "add" /\ last.call.amount <= 0)
       => (last.ret = "ValidationError" /\ ~last.wrote /\ ~last.applied)

\* C5: when the transaction of update_balance_transactional failed (here: it
\* ran out of attempts), its delta is not in the stored balance, which is what
\* the other writers committed, and what the call hands its caller differs
\* from what it hands it on success.
C5_FailedUpdateIsTold ==
    (last.ubt # "notcalled" /\ ~last.applied)
    => (Balance = committed /\ last.ubt # UbtResult(FALSE))

\* a failure happened inside the call that ended last
LastFailed ==
    \/ last.call.shown \cap {"error_add", "error_delete", "error_balance"} # {}
    \/ last.call.op = "delete" /\ ~last.call.existed

\* C6: a handler call inside which a failure happened (record write or delete
\* failure, record not found, balance update failure) ends with an error
\* outcome for its caller.
C6_FailuresReachCaller ==
    (last.ret # "none" /\ LastFailed) => last.ret = "Error"

\* C7: a record add_record stored for a calendar date is listed by
\* get_all_records with that calendar date and with the amount, category and
\* type it was added with.
C7_RoundTrip ==
    \A s \in Sessions : \A i \in DOMAIN df[s].rows \cap DOMAIN added :
        added[i].date # NoDate =>
            /\ df[s].rows[i].date.date = added[i].date
            /\ df[s].rows[i].amount = added[i].amount
            /\ df[s].rows[i].category = added[i].category
            /\ df[s].rows[i].type = added[i].type

\* the 'date' field of the document is absent or is no date that parses
DateUnusable(doc) ==
    \/ doc.date.kind \in {"missing", "other"}
    \/ doc.date.kind = "str" /\ StrpDate(doc.date.s) = NoDate

\* the document has a creation time
TimestampAvailable(doc) == doc.timestamp.kind \in {"Timestamp", "datetime"}

\* C8: a listed record whose 'date' field is absent or unparseable and whose
\* creation timestamp is available has the calendar date of that timestamp.
C8_FallbackToCreationDate ==
    \A s \in Sessions : \A i \in DOMAIN df[s].rows \cap DOMAIN records :
        (DateUnusable(records[i]) /\ TimestampAvailable(records[i]))
        => df[s].rows[i].date.date = records[i].timestamp.dt.date

\* C8 witness: the document with date "N/A" created at 2024-02-01T03:00Z is
\* listed on 2024-02-02 with the date 2024-02-01.
C8_NAListedWithCreationDate ==
    \E s \in Sessions :
        /\ df[s].valid
        /\ LegacyId \in DOMAIN df[s].rows
        /\ LegacyId \in DOMAIN records
        /\ records[LegacyId].date = StrField(<<"N", "/", "A">>)
        /\ records[LegacyId].timestamp.dt = NowUtc(3)
        /\ now >= 24
        /\ df[s].rows[LegacyId].date.date = MkDate(2024, 2, 1)

\* C9: every date of a listed record is timezone-naive and at midnight.
C9_DatesAreNaiveMidnight ==
    \A s \in Sessions : \A i \in DOMAIN df[s].rows :
        df[s].rows[i].date # NaT =>
            (df[s].rows[i].date.tz = "naive" /\ df[s].rows[i].date.hour = 0)

\* C10: once the only delete_record call so far, made after any number of
\* successful add_record calls, has ended, the balance is the signed sum of
\* the appended records other than the deleted one.
C10_DeleteUndoesAppend ==
    (/\ Quiescent
     /\ ~failures
     /\ nDeletes = 1
     /\ last.call.op = "delete"
     /\ last.ret = "Rerun")
    => Balance = AppendedSum({last.call.id})

\* C10 witness: expense 120 and income 5000 appended, the first deleted:
\* the balance is 5000.
C10_ScenarioEnds5000 ==
    /\ Quiescent
    /\ ~failures
    /\ nDeletes = 1
    /\ DOMAIN added = {1, 2}
    /\ added[1].type = EXPENSE /\ added[1].amount = 120
    /\ added[2].type = INCOME /\ added[2].amount = 5000
    /\ last.call.op = "delete" /\ last.call.id = 1 /\ last.applied
    /\ DOMAIN records = {2}
    /\ Balance = 5000

\* the fields of the call are malformed: no category, or a type that is
\* neither income nor expense
Malformed(c) == c.category = "" \/ c.type \notin {INCOME, EXPENSE}

\* C11: add_record with an empty category or with a type that is neither
\* income nor expense is rejected before any store access: it never gets as
\* far as the record write, and it ends with a ValidationError outcome, no
\* record written and the balance as it was.
C11_MalformedFieldsRejected ==
    /\ \A s \in Sessions : call[s].op = "add" => ~Malformed(call[s])
    /\ \A i \in DOMAIN added : ~Malformed(added[i])
    /\ (last.call.op = "add" /\ Malformed(last.call))
       => (last.ret = "ValidationError" /\ ~last.wrote /\ Balance = last.call.before)

\* C12: a call of update_balance_transactional never makes more than
\* MAX_ATTEMPTS commit attempts, however often other writers commit in
\* between: while it runs fewer than MAX_ATTEMPTS attempts have been refused,
\* and when it has ended it has either committed or shown its failure.
C12_BoundedAttempts ==
    /\ \A s \in Sessions : attempts[s] < MAX_ATTEMPTS
    /\ last.attempts <= MAX_ATTEMPTS
    /\ last.ubt # "notcalled"
       => (last.applied \/ "error_balance" \in last.call.shown)

\* C12 witness: a call whose every commit was refused, because set_balance
\* wrote the balance after each of its reads, has ended failed after
\* MAX_ATTEMPTS attempts.
C12_GaveUpAfterMaxAttempts ==
    /\ last.ubt # "notcalled"
    /\ ~last.applied
    /\ last.attempts = MAX_ATTEMPTS
    /\ "error_balance" \in last.call.shown
    /\ pc[1] = "idle"

\* C13: when the record write of add_record or the record delete of
\* delete_record succeeded and the balance update that followed failed, the
\* record mutation stays: after the failed add_record the record is live,
\* after the failed delete_record it is gone, and the balance is what it was
\* when the call started.
C13_NoRollback ==
    (Quiescent /\ last.ubt # "notcalled" /\ ~last.applied)
    => /\ last.call.op = "add" => last.call.id \in DOMAIN records
       /\ last.call.op = "delete" => last.call.id \notin DOMAIN records
       /\ Balance = last.call.before

\* C13 witness: the balance update of an add_record failed; its record is
\* live and the balance, still what it was, is no longer the sum of the
\* live records.
C13_FailedAppendLeavesRecord ==
    /\ Quiescent
    /\ last.call.op = "add"
    /\ last.ubt # "notcalled"
    /\ ~last.applied
    /\ last.call.id \in DOMAIN records
    /\ Balance = last.call.before
    /\ Balance # LiveSum(records)

\* C14: a listed record that has neither a usable 'date' field nor a
\* creation timestamp is given a date all the same (the current date):
\* never a missing one.
C14_LastResortIsCurrentDate ==
    \A s \in Sessions : \A i \in DOMAIN df[s].rows \cap DOMAIN records :
        (DateUnusable(records[i]) /\ ~TimestampAvailable(records[i]))
        => /\ df[s].rows[i].date # NaT
           /\ \E h \in 0..now : df[s].rows[i].date.date = NowUtc(h).date

\* some session is inside a record handler (between its record write and
\* the end of its balance update)
Mutating == \E s \in Sessions : pc[s] \in {"ubt_read", "ubt_commit"}

\* C15: the lazy initialisation of get_current_balance never changes the
\* balance a reader of the document sees: it writes 0 only where the balance
\* was absent, never over a balance committed since its read.
C15_LazyInitKeepsBalance ==
    [][(\E s \in Sessions : pc[s] = "gcb" /\ pc'[s] = "idle") => Balance' = Balance]_vars

\* C16: while no add_record or delete_record call is running, the record
\* list the cache of get_all_records would serve to a call starting now is
\* the list of the live records.
C16_ListReflectsMutations ==
    (recCache.valid /\ ~Mutating) => recCache.rows = FrameOf(records)

\* C17: while no balance update is running, the balance the cache of
\* get_current_balance would serve to a call starting now is the stored
\* balance.
C17_BalanceReflectsUpdates ==
    (balCache.valid /\ ~Mutating) => balCache.value = Balance

\* the record write of the call raised
WriteFailed(c) == c.shown \cap {"error_add", "error_delete"} # {}

\* C18: update_balance_transactional is never running for a call whose
\* record write raised; such a call ends without having called it, with no
\* record created (every live record comes from a write that succeeded) or
\* removed, and with the balance it started with.
C18_UpdateOnlyAfterWrite ==
    /\ \A s \in Sessions : pc[s] \in {"ubt_read", "ubt_commit"} => ~WriteFailed(call[s])
    /\ DOMAIN records \subseteq DOMAIN added
    /\ WriteFailed(last.call)
       => /\ last.ubt = "notcalled"
          /\ ~last.wrote
          /\ ~last.applied
          /\ Quiescent => Balance = last.call.before
          /\ (Quiescent /\ last.call.op = "delete" /\ last.call.existed)
             => last.call.id \in DOMAIN records

\* C18 witness: the delete of a live record of 5000 raised: the record is
\* still live and the balance is still 5000.
C18_FailedDeleteChangesNothing ==
    /\ Quiescent
    /\ last.call.op = "delete"
    /\ "error_delete" \in last.call.shown
    /\ last.ubt = "notcalled"
    /\ last.call.existed
    /\ last.call.id \in DOMAIN records
    /\ last.call.amount = 5000
    /\ Balance = 5000

\* C19: every live record has an amount above 0 (so no sign is ever stored
\* in the amount).
C19_AmountsPositive == \A i \in DOMAIN records : records[i].amount > 0

\* the edit that ended last succeeded: the document was updated and the
\* balance update, when one was needed, committed
EditSucceeded ==
    /\ last.call.op = "update"
    /\ last.wrote
    /\ last.ubt = "notcalled" \/ last.applied

\* C20: once a successful update_record whose old_data was the stored
\* record's type and amount has ended, the balance has changed by
\* signed(new) - signed(old), which is the change of delete_record of the old
\* record followed by add_record of the new one; and if the balance was the
\* signed sum of the live records before the edit, it is after it.
C20_EditIsDeleteThenAppend ==
    (Quiescent /\ EditSucceeded /\ last.call.fresh)
    => /\ Balance - last.call.before
            = Signed(last.call.type, last.call.amount)
              - Signed(last.call.old.type, last.call.old.amount)
       /\ Balance - last.call.before
            = AmountChange(last.call.old.amount, DeleteOperation(last.call.old.type))
              + AmountChange(last.call.amount, AddOperation(last.call.type))
       /\ last.call.before = last.call.liveBefore => Balance = LiveSum(records)

\* C20 witness: the income of 100 was edited into an expense of 120: the
\* balance went from 100 to -120, the signed sum of the live records.
C20_IncomeEditedToExpense ==
    /\ Quiescent
    /\ EditSucceeded
    /\ last.call.fresh
    /\ last.applied
    /\ last.call.old = [type |-> INCOME, amount |-> 100]
    /\ last.call.type = EXPENSE /\ last.call.amount = 120
    /\ last.call.before = 100
    /\ Balance = 0 - 120
    /\ DOMAIN records = {last.call.id}
    /\ records[last.call.id].type = EXPENSE
    /\ LiveSum(records) = 0 - 120

(* ------------------- the gap between records and balance --------------- *)

\* the sum of amount_change over the sessions of S that are between their
\* record mutation and the commit of their balance update
RECURSIVE PendingChange(_)
PendingChange(S) ==
    IF S = {} THEN 0
    ELSE LET s == CHOOSE x \in S : TRUE
         IN  (IF pc[s] \in {"ubt_read", "ubt_commit"} THEN call[s].change ELSE 0)
             + PendingChange(S \ {s})

\* C21: in every state, the signed sum of the live records minus the stored
\* balance is the sum of the deltas of the operations whose record mutation
\* is done and whose balance update has not committed: those still on their
\* way and those whose balance update failed (no set_balance having run).
C21_GapIsPendingDeltas ==
    ~overridden => LiveSum(records) - Balance = PendingChange(Sessions) + lost

(* -------------------------- the absent balance -------------------------- *)

\* C22: with no balance document, get_current_balance returns 0 and leaves
\* a balance of 0 stored (its write not failing), and the transaction of
\* update_balance_transactional reads the absent balance as 0 and commits
\* a balance of exactly its amount_change.
C22_AbsentBalanceIsZero ==
    [][\A s \in Sessions :
         /\ (pc[s] = "gcb" /\ pc'[s] = "idle" /\ ~call[s].existed /\ last'.call.shown = {})
               => /\ balCache' = [valid |-> TRUE, value |-> 0]
                  /\ balanceDoc' = [exists |-> TRUE, balance |-> 0]
         /\ (pc[s] = "ubt_read" /\ pc'[s] = "ubt_commit" /\ ~balanceDoc.exists)
               => snap'[s] = 0
         /\ (pc[s] = "ubt_commit" /\ pc'[s] = "idle" /\ ~balanceDoc.exists /\ last'.applied)
               => balanceDoc' = [exists |-> TRUE, balance |-> call[s].change]]_vars

\* C22 witness: the transaction of session 1 read the absent balance as 0;
\* then get_current_balance, which had found no document either, returned
\* 0 and stored a balance of 0 (which makes the transaction read again).
C22_LazilyInitialised ==
    /\ pc[1] = "ubt_commit"
    /\ snap[1] = 0
    /\ dirty[1]
    /\ last.call.op = "get_current_balance"
    /\ ~last.call.existed
    /\ last.wrote
    /\ balCache = [valid |-> TRUE, value |-> 0]
    /\ balanceDoc = [exists |-> TRUE, balance |-> 0]
    /\ committed = 0

(* --------------------- the writers of the balance ----------------------- *)

\* the step is the commit of a transaction of update_balance_transactional
TransactionCommits ==
    \E s \in Sessions : pc[s] = "ubt_commit" /\ pc'[s] # "ubt_commit" /\ last'.applied
                         /\ last'.call.op \in {"add", "delete", "update"}

\* the step is a set_balance(X) that wrote
SetBalanceWrites == last'.call.op = "set_balance" /\ last' # last /\ last'.wrote

\* C23: set_balance is the only operation that writes the balance outside
\* the transaction: every change of the stored balance is the commit of a
\* transaction or a set_balance(X), and set_balance(X) stores exactly X,
\* whatever the live records are, and leaves the records unchanged.
C23_OnlySetBalanceBypasses ==
    [][/\ Balance' # Balance => (TransactionCommits \/ SetBalanceWrites)
       /\ (SetBalanceWrites /\ ~TransactionCommits)
             => (balanceDoc' = [exists |-> TRUE, balance |-> last'.call.amount]
                 /\ records' = records)]_vars

(* ----------------------- the creation timestamp ------------------------- *)

\* record_data as the form handlers build it (lines 810-818, 1308-1315):
\* with a 'timestamp' of their own, the local time datetime.datetime.now()
\* of a server eight hours ahead of UTC
StampInputs ==
    {[date |-> Today, type |-> INCOME, category |-> "Salary", amount |-> 100,
      timestamp |-> MkDateTime(Today, 11, "naive")]}

\* one session saves a record and edits it while the clock advances
NextStamp ==
    \/ \E step \in TickSteps : Tick(step)
    \/ \E rd \in StampInputs :
          /\ nextId <= MaxEditAdds
          /\ AddRecordWrite(1, rd, "datetime", TRUE)
    \/ GetAllRecords(1, TRUE)
    \/ EndRun(1)
    \/ \E id \in DOMAIN df[1].rows, nd \in EditInputs, ok \in BOOLEAN :
          UpdateRecordWrite(1, id, nd, "datetime", ok)
    \/ UbtRead(1)
    \/ \E ok \in BOOLEAN : UbtCommit(1, ok)

SpecStamp == Init /\ [][NextStamp]_vars

\* C24: a record's id and creation timestamp never change after the append:
\* every live record is stored under the id add_record gave it, and its
\* 'timestamp' is the UTC time at which add_record stored it, whatever
\* timestamp the caller supplied and whatever update_record wrote since.
C24_IdAndTimestampImmutable ==
    \A i \in DOMAIN records :
        /\ i \in DOMAIN createdAt
        /\ i < nextId
        /\ records[i].timestamp = TimeField("datetime", NowUtc(createdAt[i]))

\* C24 witness: the record saved at 03:00Z with a caller's timestamp of
\* 11:00 local time was edited into an expense the next day; it is still
\* record 1 and its timestamp is still 03:00Z of the first day.
C24_EditedKeepsTimestamp ==
    /\ pc[1] = "idle"
    /\ last.call.op = "update" /\ last.wrote /\ last.applied
    /\ now = 24
    /\ DOMAIN records = {1}
    /\ records[1].type = EXPENSE
    /\ createdAt[1] = 3
    /\ added[1].timestamp = MkDateTime(Today, 11, "naive")
    /\ records[1].timestamp = TimeField("datetime", MkDateTime(Today, 3, "UTC"))

(* ---------------------- delete after another's edit --------------------- *)

\* C25: a delete_record that removed a record and whose balance update
\* committed has changed the balance by minus the signed amount of the
\* record as it was stored when it was deleted, also when another session
\* edited the record after the deleting session listed it.
C25_DeleteReversesStoredAmount ==
    (last.call.op = "delete" /\ last.call.existed /\ last.applied)
    => last.call.change = 0 - Signed(last.call.old.type, last.call.old.amount)

(* ------------------ set_balance against a balance update ---------------- *)

\* C26: when set_balance(1000) ran and the one balance update made, of
\* delta 100, has committed, in whatever order their steps were taken, the
\* balance is 1000 or 1100: never the balance before the override plus 100.
C26_OverrideOrOverridePlusDelta ==
    (overridden /\ nextId = 2 /\ nDeletes = 0 /\ pc[1] = "idle" /\ lost = 0)
    => Balance \in OverrideValues \cup {x + 100 : x \in OverrideValues}

\* C26 witness: set_balance(1000) wrote between the read and the commit of
\* the transaction; the commit was refused, the transaction read again and
\* committed 1100.
C26_RetriedOverOverride ==
    /\ overridden
    /\ nextId = 2 /\ nDeletes = 0
    /\ pc[1] = "idle"
    /\ last.call.op = "add" /\ last.applied
    /\ last.call.change = 100
    /\ last.call.before = 0
    /\ last.attempts = 1
    /\ Balance = 1100

(* ----------------------- the edit of a missing record ------------------- *)

\* C27: an update_record called for an id that has no live record creates
\* no record and leaves the balance unchanged: its write is not done, the
\* balance update is not called and the error is shown.
C27_UpdateOfMissingChangesNothing ==
    (last.call.op = "update" /\ ~last.call.existed)
    => /\ ~last.wrote
       /\ last.ubt = "notcalled"
       /\ "error_update" \in last.call.shown
       /\ last.call.id \notin DOMAIN records
       /\ Balance = last.call.before

\* C27 witness: the income of 100 was deleted from one session and then
\* edited, to an expense of 120, from the row another session still
\* showed; there is no record and the balance is still 0.
C27_EditAfterDelete ==
    /\ last.call.op = "update"
    /\ ~last.call.existed
    /\ last.call.type = EXPENSE /\ last.call.amount = 120
    /\ last.call.old = [type |-> INCOME, amount |-> 100]
    /\ nDeletes = 1
    /\ records = NoRecords
    /\ Balance = 0
    /\ ~last.wrote

(* -------------------------- payment accounts ---------------------------- *)

\* C28: when the saves charged to the payment account have ended and no
\* call failed, the account's stored balance is the sum of their deltas:
\* the read-modify-write of the accounts document loses no update.
C28_AccountReflectsAllDeltas ==
    (Quiescent /\ ~failures) => account = accDeltas

\* C29: the balance of the payment account changes only in a save whose
\* record add_record has persisted.
C29_AccountOnlyWithRecord ==
    [][account' # account
        => \E s \in Sessions : /\ pc[s] = "ba_update"
                                /\ pc'[s] = "idle"
                                /\ call[s].id \in DOMAIN added]_vars

(* --------------------- the SQLite version (app.py) ---------------------- *)

\* the number of positions of sequence q that hold x
Count(q, x) == Cardinality({i \in 1..Len(q) : q[i] = x})

\* a DataFrame row with its date written back as stored and amount_adj
\* dropped: the table row it came from
TableRow(r) == [date |-> Strftime(r.date), category |-> r.category,
                amount |-> r.amount, type |-> r.type]

\* the sum of amount_adj over the rows of the month
RECURSIVE AdjTotal(_, _)
AdjTotal(frame, month) ==
    IF frame = <<>> THEN 0
    ELSE (IF MonthYear(frame[1].date) = month THEN frame[1].amount_adj ELSE 0)
         + AdjTotal(Tail(frame), month)

====
